---- MODULE Spec2Model ----
(***************************************************************************)
(* Model of the OWID COVID pipeline:                                       *)
(*   - the Collector, src/collect/fetch_owid.py                            *)
(*     (download, validate, archive, profile, history log);                *)
(*   - the Loader, src/etl/etl_load.py                                     *)
(*     (latest-file selection, schema reset, transform, load, self-check). *)
(* The two programs share only the archive directory data/raw (files).     *)
(***************************************************************************)
EXTENDS Integers, Sequences, FiniteSets, TLC

VARIABLES
    clock,        \* wall clock, seconds after 2026-10-25T00:00:00Z
    ticks,        \* number of clock advances so far (bounds the model)
    files,        \* data/raw: filename -> content
    persisted,    \* log of the save_bytes_to_file calls, in call order
    history,      \* logs/collect_history.csv: the data rows, in file order
    headers,      \* number of header rows written to collect_history.csv
    cpc,          \* Collector run -> position in main()
    idx,          \* Collector run -> index of the source the loop is at
    results,      \* Collector run -> the list `results` of main()
    outcomes,     \* Collector run -> what happened to each source so far
    appended,     \* Collector run -> the rows this run wrote to the history
    lpc,          \* Loader: position in main()
    runs,         \* Loader: number of runs started (bounds the model)
    csv_path,     \* Loader: result of get_latest_csv()
    df,           \* Loader: the table read from csv_path (raw)
    df_locations, \* Loader: static partition, de-duplicated
    df_stats,     \* Loader: time-series partition
    locations,    \* store: rows of table locations
    covid_stats,  \* store: rows of table covid_stats
    sample,       \* Loader: rows returned by the join of quick_test
    steps,        \* Loader: the steps this run completed, in order
    failedAt,     \* Loader: the step of this run that raised, or "none"
    storeAtStart  \* Loader: the two tables as they were when the run began

cvars == <<clock, ticks, files, persisted, history, headers, cpc, idx,
           results, outcomes, appended>>
lvars == <<lpc, runs, csv_path, df, df_locations, df_stats, locations,
           covid_stats, sample, steps, failedAt, storeAtStart>>
vars == <<cvars, lvars>>

NULL == "NULL"

\* ------------------------------------------------------------------ bounds
NumSources == 2   \* configured sources (SOURCES has one; the loop is general)
NumRuns == 2      \* Collector invocations, possibly overlapping
MaxTicks == 2     \* clock advances
MaxRows == 2      \* rows of a generated input table
MaxLoaderRuns == 2
MaxArchives == 2  \* artifacts archived while the Loader is observed

Min(a, b) == IF a < b THEN a ELSE b

\* lexicographic order on equal-length sequences of integers
RECURSIVE SeqLess(_, _)
SeqLess(s, t) ==
    IF s = <<>> \/ t = <<>> THEN FALSE
    ELSE IF Head(s) # Head(t) THEN Head(s) < Head(t)
    ELSE SeqLess(Tail(s), Tail(t))

\* ============================================================== Collector

\* SOURCES.items(): the configured names in iteration order.  A name is
\* modelled by its rank in string order.
SOURCES == [i \in 1..NumSources |-> i]

Runs == DOMAIN cpc   \* the Collector invocations of this behaviour

\* tz.gettz("Europe/Paris"): UTC+2 (CEST) until 2026-10-25T01:00:00Z, then
\* UTC+1 (CET).
utcoffset(t) == IF t < 3600 THEN 7200 ELSE 3600

\* datetime.now(tz=paris).strftime("%Y%m%d_%H%M%S") at clock value t, as the
\* fields <<YYYYMMDD, HH, MM, SS>>; string order of the formatted text is the
\* lexicographic order of the fields (all are fixed width).
timestamp_paris(t) ==
    LET ls == t + utcoffset(t)
    IN  << 20261025 + (ls \div 86400), (ls \div 3600) % 24,
           (ls \div 60) % 60, ls % 60 >>

\* f"{name}_{ts}.csv"
FileName(name, ts) == <<name>> \o ts

\* string order of two filenames
NameLess(p, q) == SeqLess(p, q)

\* f.startswith("owid_covid_data") and f.endswith(".csv"): every configured
\* name is taken to start with the prefix, as the one of SOURCES does
Candidates(fs) == {p \in DOMAIN fs : p[1] \in 1..NumSources}

\* files.sort(reverse=True); files[0]   (defined when Candidates is not empty)
get_latest_csv(fs) ==
    CHOOSE p \in Candidates(fs) : \A q \in Candidates(fs) : ~NameLess(p, q)

\* a downloaded body: its length, whether pandas parses its first 10 rows,
\* whether pandas parses all of it
Payloads ==
    { b \in [len : {999, 1000}, prefix_ok : BOOLEAN, full_ok : BOOLEAN,
             data : {<<>>}] : b.full_ok => b.prefix_ok }

\* download_csv: the body, or the exception requests raises
NoBody == [len |-> 0, prefix_ok |-> FALSE, full_ok |-> FALSE, data |-> <<>>]
Fetches ==
    {[raised |-> TRUE, body |-> NoBody]}
        \cup {[raised |-> FALSE, body |-> b] : b \in Payloads}

sha256_bytes(b) == <<"sha256", b>>

ValidateSizeOnly(b) == b.len >= 1000

validate_csv_bytes(b) ==
    IF b.len < 1000 THEN FALSE
    ELSE b.prefix_ok

\* open(path, "wb"); f.write(b): creates the file or replaces its content
save_bytes_to_file(fs, b, name, t) ==
    LET path == FileName(name, timestamp_paris(t))
    IN  [p \in (DOMAIN fs) \cup {path} |-> IF p = path THEN b ELSE fs[p]]

\* The stage at which the body of the for loop ends for one source.
SourceStage(fetch, saveOk) ==
    IF fetch.raised THEN "fetch_failed"
    ELSE IF ~validate_csv_bytes(fetch.body) THEN "invalid"
    ELSE IF ~saveOk THEN "save_failed"
    ELSE IF ~fetch.body.full_ok THEN "profile_failed"
    ELSE "ok"

Saved(stage) == stage \in {"profile_failed", "ok"}

AfterSourceAbort(i, stage) ==
    IF stage \in {"fetch_failed", "save_failed", "profile_failed"}
    THEN NumSources + 1
    ELSE i + 1

\* where the loop goes after a source: the try/except sits inside the loop
\* body, so the next source follows whatever the stage reached
AfterSource(i, stage) == i + 1

\* one iteration of `for name, url in SOURCES.items()`
ProcessSource(c, fetch, saveOk) ==
    /\ cpc[c] = "loop"
    /\ idx[c] <= NumSources
    /\ LET name == SOURCES[idx[c]]
           stage == SourceStage(fetch, saveOk)
           path == FileName(name, timestamp_paris(clock))
       IN  /\ files' = IF Saved(stage)
                       THEN save_bytes_to_file(files, fetch.body, name, clock)
                       ELSE files
           /\ persisted' = IF Saved(stage)
                           THEN Append(persisted,
                                  [run |-> c, name |-> name, path |-> path,
                                   at |-> clock, content |-> fetch.body,
                                   existed |-> path \in DOMAIN files])
                           ELSE persisted
           /\ results' = IF stage = "ok"
                         THEN [results EXCEPT ![c] = Append(@,
                                  [name |-> name, path |-> path,
                                   sha256 |-> sha256_bytes(fetch.body)])]
                         ELSE results
           /\ outcomes' = [outcomes EXCEPT ![c] = Append(@,
                              [name |-> name, fetch |-> fetch,
                               stage |-> stage])]
    /\ idx' = [idx EXCEPT ![c] = AfterSource(@, SourceStage(fetch, saveOk))]
    /\ UNCHANGED <<clock, ticks, history, headers, cpc, appended, lvars>>

\* the summary block after the loop: append one row per entry of results
WriteHistory(c) ==
    /\ cpc[c] = "loop"
    /\ idx[c] > NumSources
    /\ LET rows == [i \in 1..Len(results[c]) |->
                      [ts_paris |-> timestamp_paris(clock),
                       name |-> results[c][i].name,
                       path |-> results[c][i].path,
                       sha256 |-> results[c][i].sha256]]
       IN  /\ history' = history \o rows
           /\ appended' = [appended EXCEPT ![c] = rows]
    /\ headers' = IF headers = 0 THEN 1 ELSE headers
    /\ cpc' = [cpc EXCEPT ![c] = "done"]
    /\ UNCHANGED <<clock, ticks, files, persisted, idx, results, outcomes,
                   lvars>>

\* time passes
Tick(d) ==
    /\ ticks < MaxTicks
    /\ clock' = clock + d
    /\ ticks' = ticks + 1
    /\ UNCHANGED <<files, persisted, history, headers, cpc, idx, results,
                   outcomes, appended, lvars>>

TickSteps == {1, 1800}

InitCollector(R) ==
    /\ clock = 0
    /\ ticks = 0
    /\ history = <<>>
    /\ headers = 0
    /\ cpc = [c \in R |-> "loop"]
    /\ idx = [c \in R |-> 1]
    /\ results = [c \in R |-> <<>>]
    /\ outcomes = [c \in R |-> <<>>]
    /\ appended = [c \in R |-> <<>>]

\* data/raw starts empty
InitArchive ==
    /\ files = << >>
    /\ persisted = <<>>

InitLoaderIdle ==
    /\ lpc = "idle"
    /\ runs = 0
    /\ csv_path = NULL
    /\ df = <<>>
    /\ df_locations = <<>>
    /\ df_stats = <<>>
    /\ locations = <<>>
    /\ covid_stats = <<>>
    /\ sample = <<>>
    /\ steps = <<>>
    /\ failedAt = "none"
    /\ storeAtStart = <<>>

\* one Collector run
Init == InitCollector({1}) /\ InitArchive /\ InitLoaderIdle

\* NumRuns Collector runs started together; their steps interleave
InitRuns == InitCollector(1..NumRuns) /\ InitArchive /\ InitLoaderIdle

Next ==
    \/ \E c \in Runs, f \in Fetches, s \in BOOLEAN : ProcessSource(c, f, s)
    \/ \E c \in Runs : WriteHistory(c)
    \/ \E d \in TickSteps : Tick(d)

Spec == Init /\ [][Next]_vars

SpecRuns == InitRuns /\ [][Next]_vars

\* ------------------------------------------------------- Collector claims

Names(rows) == [i \in 1..Len(rows) |-> rows[i].name]

StageIsOk(o) == o.stage = "ok"
StageIsSaved(o) == Saved(o.stage)

\* the sources visited so far are the configured ones, in order
InOrder(c) ==
    /\ Len(outcomes[c]) = idx[c] - 1
    /\ \A i \in 1..Len(outcomes[c]) : outcomes[c][i].name = SOURCES[i]

\* a run that has not written the history can take its next step
CanProceed(c) ==
    cpc[c] # "done" =>
        \/ ENABLED (\E f \in Fetches, s \in BOOLEAN : ProcessSource(c, f, s))
        \/ ENABLED WriteHistory(c)

\* C1, as stated: a Collector run visits every source in order whatever the
\* outcome of each, always gets to the history write, and appends one row for
\* each source whose fetch, validation and save succeeded.
C1_RecordPerSavedSource ==
    \A c \in Runs :
        /\ InOrder(c)
        /\ CanProceed(c)
        /\ cpc[c] = "done" =>
              /\ Len(outcomes[c]) = NumSources
              /\ Names(appended[c]) = Names(SelectSeq(outcomes[c], StageIsSaved))

\* C1, amended: as above, but the row is appended for the sources whose
\* fetch, validation, save and profiling all succeeded; a source whose
\* archived file cannot be profiled gets no row.
C1_RecordPerProfiledSource ==
    \A c \in Runs :
        /\ InOrder(c)
        /\ CanProceed(c)
        /\ cpc[c] = "done" =>
              /\ Len(outcomes[c]) = NumSources
              /\ Names(appended[c]) = Names(SelectSeq(outcomes[c], StageIsOk))
              /\ history = appended[c]

\* C1 witness: a finished run whose first source failed to download and
\* whose last source went through, with exactly one row appended.
C1_Witness ==
    /\ cpc[1] = "done"
    /\ outcomes[1][1].stage = "fetch_failed"
    /\ outcomes[1][NumSources].stage = "ok"
    /\ Len(appended[1]) >= 1
    /\ history = appended[1]

LaterPair(i, j) ==
    /\ i < j
    /\ persisted[i].name = persisted[j].name
    /\ persisted[i].at < persisted[j].at
    /\ persisted[i].path # persisted[j].path

\* C2: of two artifacts of one logical name saved at different times, the
\* latest-file selection never returns the one saved first.
C2_LatestIsLastSaved ==
    \A i, j \in 1..Len(persisted) :
        LaterPair(i, j) => get_latest_csv(files) # persisted[i].path

\* C3: no save writes to a path that already holds an artifact, every
\* artifact keeps the bytes it was created with, and artifacts of one
\* logical name sort by filename in the order they were created.
C3_NeverOverwrites ==
    /\ \A i \in 1..Len(persisted) :
          /\ ~persisted[i].existed
          /\ persisted[i].path \in DOMAIN files
          /\ files[persisted[i].path] = persisted[i].content
    /\ \A i, j \in 1..Len(persisted) :
          (i < j /\ persisted[i].name = persisted[j].name)
              => NameLess(persisted[i].path, persisted[j].path)

\* ================================================================= Loader

\* The columns of the artifact.  loc_cols lists 18 static columns and the
\* table has some 50 metric columns; the model keeps iso_code, continent,
\* location, population of the first and date, new_cases, new_deaths of the
\* second (the others are carried along exactly like population and new_cases).
Columns == {"iso_code", "continent", "location", "population",
            "date", "new_cases", "new_deaths"}

loc_cols == {"iso_code", "continent", "location", "population"}

\* [c for c in df.columns if c not in loc_cols
\*    and c not in ["continent", "location", "population"]]
stat_cols ==
    {c \in Columns :
        c \notin loc_cols /\ c \notin {"continent", "location", "population"}}

\* the columns of the two tables created by create_schema
LocationsTableCols == loc_cols
StatsTableCols == {"id", "iso_code", "date", "new_cases", "new_deaths"}

\* date cells as they appear in the CSV text: a calendar date, text that is
\* no date, or nothing
DayOf == [d \in {"2021-01-01", "2021-01-02", "2021-01-03", "2021-01-04"} |->
            CASE d = "2021-01-01" -> 1 [] d = "2021-01-02" -> 2
              [] d = "2021-01-03" -> 3 [] d = "2021-01-04" -> 4]
Garbage == "not-a-date"
NaT == 0

\* pd.to_datetime(x, errors="coerce")
to_datetime(x) == IF x \in DOMAIN DayOf THEN DayOf[x] ELSE NaT

\* .dt.strftime("%Y-%m-%d"): NaT becomes a missing value
strftime(v) == IF v = NaT THEN NULL ELSE CHOOSE d \in DOMAIN DayOf : DayOf[d] = v

Row(iso, date, loc) ==
    [iso_code |-> iso, continent |-> "Europe", location |-> loc,
     population |-> 1, date |-> date, new_cases |-> 1, new_deaths |-> 0]

HasKeys(r) == r.iso_code # NULL /\ r.date # NULL

\* df.dropna(subset=["iso_code", "date"])
dropna(t) == SelectSeq(t, HasKeys)

\* df["date"] = pd.to_datetime(df["date"], errors="coerce").dt.strftime(...)
normalize_date(t) ==
    [i \in 1..Len(t) |-> [t[i] EXCEPT !.date = strftime(to_datetime(@))]]

\* df[cols]
Project(t, cols) == [i \in 1..Len(t) |-> [c \in cols |-> t[i][c]]]

\* .drop_duplicates(subset=["iso_code"]): the first row of each iso_code
RECURSIVE drop_duplicates(_)
drop_duplicates(t) ==
    IF t = <<>> THEN <<>>
    ELSE LET init == drop_duplicates(SubSeq(t, 1, Len(t) - 1))
             last == t[Len(t)]
         IN  IF \E i \in 1..Len(init) : init[i].iso_code = last.iso_code
             THEN init
             ELSE Append(init, last)

\* lines 116-117 of load_data
Cleaned(raw) == normalize_date(dropna(raw))

\* line 127
TransformLocations(raw) == drop_duplicates(Project(Cleaned(raw), loc_cols))

\* lines 130-131
TransformStats(raw) == Project(Cleaned(raw), stat_cols)

\* df.to_sql(..., if_exists="append", index=False): a column of the table the
\* frame does not have is left NULL; id is assigned by AUTOINCREMENT
to_sql_locations(tbl, frame) ==
    tbl \o [i \in 1..Len(frame) |->
              [c \in LocationsTableCols |->
                  IF c \in DOMAIN frame[i] THEN frame[i][c] ELSE NULL]]

to_sql_stats(tbl, frame) ==
    tbl \o [i \in 1..Len(frame) |->
              [c \in StatsTableCols |->
                  IF c = "id" THEN Len(tbl) + i
                  ELSE IF c \in DOMAIN frame[i] THEN frame[i][c] ELSE NULL]]

\* iso_code TEXT PRIMARY KEY: the insert is refused when a key repeats
PrimaryKeyOk(tbl, frame) ==
    /\ \A i \in 1..Len(frame) : \A j \in 1..Len(tbl) :
          frame[i].iso_code # tbl[j].iso_code
    /\ \A i, j \in 1..Len(frame) :
          i # j => frame[i].iso_code # frame[j].iso_code

\* text order of the date column: NULL sorts below every date
DateKey(d) == IF d = NULL THEN 0 ELSE DayOf[d]

\* ORDER BY s.date DESC (rows of equal date in id order)
RECURSIVE OrderByDateDesc(_)
OrderByDateDesc(S) ==
    IF S = {} THEN <<>>
    ELSE LET top == CHOOSE x \in S : \A y \in S :
                       \/ DateKey(y.date) < DateKey(x.date)
                       \/ DateKey(y.date) = DateKey(x.date) /\ x.id <= y.id
         IN  <<top>> \o OrderByDateDesc(S \ {top})

\* the join of quick_test: covid_stats s JOIN locations l
\*   ON l.iso_code = s.iso_code WHERE l.location = 'France'
\*   ORDER BY s.date DESC LIMIT 5
FranceSample(loc, st) ==
    LET joined ==
          {[id |-> st[i].id, location |-> loc[j].location, date |-> st[i].date,
            new_cases |-> st[i].new_cases, new_deaths |-> st[i].new_deaths] :
             <<i, j>> \in
               {<<i, j>> \in (1..Len(st)) \X (1..Len(loc)) :
                   /\ st[i].iso_code # NULL
                   /\ loc[j].iso_code = st[i].iso_code
                   /\ loc[j].location = "France"}}
        ordered == OrderByDateDesc(joined)
    IN  SubSeq(ordered, 1, Min(5, Len(ordered)))

\* ---- input tables

Isos == {NULL, "FRA", "DEU"}
Dates == {NULL, Garbage, "2021-01-01", "2021-01-02"}
LocationNames == {"France", "Germany"}
AllRows == {Row(i, d, l) : i \in Isos, d \in Dates, l \in LocationNames}

\* 2 countries, 4 dates each, nothing missing
Fixture2x4 ==
    << Row("FRA", "2021-01-01", "France"), Row("DEU", "2021-01-01", "Germany"),
       Row("FRA", "2021-01-02", "France"), Row("DEU", "2021-01-02", "Germany"),
       Row("FRA", "2021-01-03", "France"), Row("DEU", "2021-01-03", "Germany"),
       Row("FRA", "2021-01-04", "France"), Row("DEU", "2021-01-04", "Germany") >>

\* 10 rows: 2 without identifier, 1 with a date that is no date
Fixture10 ==
    << Row("FRA", "2021-01-01", "France"), Row(NULL, "2021-01-01", "Germany"),
       Row("FRA", "2021-01-02", "France"), Row("DEU", "2021-01-02", "Germany"),
       Row("FRA", Garbage, "France"),      Row("DEU", "2021-01-03", "Germany"),
       Row("FRA", "2021-01-04", "France"), Row(NULL, "2021-01-04", "Germany"),
       Row("DEU", "2021-01-01", "Germany"), Row("DEU", "2021-01-04", "Germany") >>

\* one country only
FixtureDEU == << Row("DEU", "2021-01-01", "Germany") >>
FixtureFRA == << Row("FRA", "2021-01-02", "France"),
                 Row("FRA", "2021-01-01", "France") >>

\* an identifier whose first row has no date, another whose only row has none
FixtureUndated ==
    << Row("FRA", NULL, "Germany"), Row("FRA", "2021-01-01", "France"),
       Row("DEU", NULL, "Germany") >>

Fixtures == {Fixture2x4, Fixture10, FixtureDEU, FixtureFRA, FixtureUndated}

GeneratedTables == UNION {[1..n -> AllRows] : n \in 0..MaxRows}

\* a body the Collector archived: it passed validate_csv_bytes
Archived(t) == [len |-> 1000, prefix_ok |-> TRUE, full_ok |-> TRUE, data |-> t]
Truncated == [len |-> 1000, prefix_ok |-> TRUE, full_ok |-> FALSE, data |-> <<>>]

\* ---- the steps of main()

Order == <<"Located", "SchemaReset", "Transformed", "LocationsLoaded",
           "Loaded", "Checked">>

AfterFailureResume(step) ==
    IF step = "LocationsLoaded" THEN "loc_loaded" ELSE "failed"

\* an exception raised by a step leaves main(): nothing catches it
AfterFailure(step) == "failed"

Fail(step) ==
    /\ lpc' = AfterFailure(step)
    /\ failedAt' = step
    /\ steps' = steps

Done(step, pc) ==
    /\ lpc' = pc
    /\ steps' = Append(steps, step)
    /\ failedAt' = failedAt

LocateAfterReset ==
    /\ lpc \in {"idle", "checked", "failed"}
    /\ runs < MaxLoaderRuns
    /\ runs' = runs + 1
    /\ steps' = IF Candidates(files) = {} THEN <<>> ELSE <<"Located">>
    /\ storeAtStart' = <<locations, covid_stats>>
    /\ df' = <<>> /\ df_locations' = <<>> /\ df_stats' = <<>> /\ sample' = <<>>
    /\ IF Candidates(files) = {}
       THEN /\ lpc' = "failed" /\ failedAt' = "Located"
            /\ csv_path' = NULL
            /\ locations' = <<>> /\ covid_stats' = <<>>
       ELSE /\ lpc' = "located" /\ failedAt' = "none"
            /\ csv_path' = get_latest_csv(files)
            /\ UNCHANGED <<locations, covid_stats>>
    /\ UNCHANGED cvars

\* a new process starts main(); csv_path = get_latest_csv()
Locate ==
    /\ lpc \in {"idle", "checked", "failed"}
    /\ runs < MaxLoaderRuns
    /\ runs' = runs + 1
    /\ steps' = IF Candidates(files) = {} THEN <<>> ELSE <<"Located">>
    /\ storeAtStart' = <<locations, covid_stats>>
    /\ df' = <<>> /\ df_locations' = <<>> /\ df_stats' = <<>> /\ sample' = <<>>
    /\ IF Candidates(files) = {}
       THEN /\ lpc' = "failed" /\ failedAt' = "Located"
            /\ csv_path' = NULL
       ELSE /\ lpc' = "located" /\ failedAt' = "none"
            /\ csv_path' = get_latest_csv(files)
    /\ UNCHANGED <<locations, covid_stats>>
    /\ UNCHANGED cvars

SchemaKeep(howfar) ==
    /\ lpc = "located"
    /\ IF howfar = 4 THEN Done("SchemaReset", "schema_reset")
       ELSE Fail("SchemaReset")
    /\ UNCHANGED <<locations, covid_stats>>
    /\ UNCHANGED <<runs, csv_path, df, df_locations, df_stats, sample,
                   storeAtStart, cvars>>

\* conn = sqlite3.connect(DB_PATH); create_schema(conn).  howfar counts the
\* statements executed before one raised: connect, DROP covid_stats,
\* DROP locations, the two CREATE; 4 is all of them
SchemaReset(howfar) ==
    /\ lpc = "located"
    /\ IF howfar = 4 THEN Done("SchemaReset", "schema_reset")
       ELSE Fail("SchemaReset")
    /\ covid_stats' = IF howfar >= 2 THEN <<>> ELSE covid_stats
    /\ locations' = IF howfar >= 3 THEN <<>> ELSE locations
    /\ UNCHANGED <<runs, csv_path, df, df_locations, df_stats, sample,
                   storeAtStart, cvars>>

\* load_data, lines 112-131: read the file, clean it, split it
Transform ==
    /\ lpc = "schema_reset"
    /\ IF csv_path \in DOMAIN files /\ files[csv_path].full_ok
       THEN /\ Done("Transformed", "transformed")
            /\ df' = files[csv_path].data
            /\ df_locations' = TransformLocations(files[csv_path].data)
            /\ df_stats' = TransformStats(files[csv_path].data)
       ELSE /\ Fail("Transformed")
            /\ UNCHANGED <<df, df_locations, df_stats>>
    /\ UNCHANGED <<runs, csv_path, locations, covid_stats, sample,
                   storeAtStart, cvars>>

\* load_data, line 134; ok is whether the store accepts the statement
LoadLocations(ok) ==
    /\ lpc = "transformed"
    /\ IF ok /\ PrimaryKeyOk(locations, df_locations)
       THEN /\ Done("LocationsLoaded", "loc_loaded")
            /\ locations' = to_sql_locations(locations, df_locations)
       ELSE /\ Fail("LocationsLoaded")
            /\ UNCHANGED locations
    /\ UNCHANGED <<runs, csv_path, df, df_locations, df_stats, covid_stats,
                   sample, storeAtStart, cvars>>

\* load_data, line 135
LoadStats(ok) ==
    /\ lpc = "loc_loaded"
    /\ IF ok
       THEN /\ Done("Loaded", "loaded")
            /\ covid_stats' = to_sql_stats(covid_stats, df_stats)
       ELSE /\ Fail("Loaded")
            /\ UNCHANGED covid_stats
    /\ UNCHANGED <<runs, csv_path, df, df_locations, df_stats, locations,
                   sample, storeAtStart, cvars>>

\* quick_test(conn); conn.close()
QuickTest(ok) ==
    /\ lpc = "loaded"
    /\ IF ok
       THEN /\ Done("Checked", "checked")
            /\ sample' = FranceSample(locations, covid_stats)
       ELSE /\ Fail("Checked")
            /\ UNCHANGED sample
    /\ UNCHANGED <<runs, csv_path, df, df_locations, df_stats, locations,
                   covid_stats, storeAtStart, cvars>>

\* a Collector run archives a validated body under the first source's name
Archive(b) ==
    /\ Len(persisted) < MaxArchives
    /\ files' = save_bytes_to_file(files, b, SOURCES[1], clock)
    /\ persisted' = Append(persisted,
          [run |-> 0, name |-> SOURCES[1],
           path |-> FileName(SOURCES[1], timestamp_paris(clock)),
           at |-> clock, content |-> b,
           existed |-> FileName(SOURCES[1], timestamp_paris(clock))
                          \in DOMAIN files])
    /\ UNCHANGED <<clock, ticks, history, headers, cpc, idx, results,
                   outcomes, appended, lvars>>

LoaderSteps ==
    \/ Locate
    \/ \E h \in 0..4 : SchemaReset(h)
    \/ Transform
    \/ \E ok \in BOOLEAN : LoadLocations(ok)
    \/ \E ok \in BOOLEAN : LoadStats(ok)
    \/ \E ok \in BOOLEAN : QuickTest(ok)

\* the store left by an earlier load of FixtureDEU
PriorLocations == to_sql_locations(<<>>, TransformLocations(FixtureDEU))
PriorStats == to_sql_stats(<<>>, TransformStats(FixtureDEU))

InitStore ==
    \/ locations = <<>> /\ covid_stats = <<>>
    \/ locations = PriorLocations /\ covid_stats = PriorStats

InitLoader ==
    /\ lpc = "idle"
    /\ runs = 0
    /\ csv_path = NULL
    /\ df = <<>>
    /\ df_locations = <<>>
    /\ df_stats = <<>>
    /\ InitStore
    /\ sample = <<>>
    /\ steps = <<>>
    /\ failedAt = "none"
    /\ storeAtStart = <<locations, covid_stats>>

\* the Loader run repeatedly while Collector runs add artifacts
InitL == InitCollector({}) /\ InitArchive /\ InitLoader

NextL ==
    \/ LoaderSteps
    \/ \E b \in {Archived(FixtureFRA), Archived(Fixture2x4), Truncated} :
          Archive(b)
    \/ Tick(1)

SpecL == InitL /\ [][NextL]_vars

\* the Loader run on one artifact, drawn from the generated tables
InitT ==
    /\ InitCollector({})
    /\ InitLoader
    /\ \E t \in GeneratedTables \cup Fixtures :
          /\ files = save_bytes_to_file(<< >>, Archived(t), SOURCES[1], 0)
          /\ persisted =
                << [run |-> 0, name |-> SOURCES[1],
                    path |-> FileName(SOURCES[1], timestamp_paris(0)),
                    at |-> 0, content |-> Archived(t), existed |-> FALSE] >>

NextT == LoaderSteps

SpecT == InitT /\ [][NextT]_vars

\* ---------------------------------------------------------- Loader claims

Did(step) == \E i \in 1..Len(steps) : steps[i] = step

IsoSet(t) == {t[i].iso_code : i \in 1..Len(t)} \ {NULL}

\* C4: every Observation row of a Transform call carries an identifier, and a
\* Location row of the same call has that identifier.
C4_ReferentialCompleteness ==
    Did("Transformed") =>
        \A i \in 1..Len(df_stats) :
            /\ "iso_code" \in DOMAIN df_stats[i]
            /\ df_stats[i].iso_code # NULL
            /\ \E j \in 1..Len(df_locations) :
                  df_locations[j].iso_code = df_stats[i].iso_code

\* C5: the Observation rows are exactly the input rows that have an
\* identifier and a date that parses; the 10-row fixture yields 7.
C5_ExcludesUnparseableDates ==
    Did("Transformed") =>
        /\ Len(df_stats) =
              Cardinality({i \in 1..Len(df) :
                  df[i].iso_code # NULL /\ df[i].date \in DOMAIN DayOf})
        /\ df = Fixture10 => Len(df_stats) = 7

\* an artifact of C countries with the same D dates' worth of rows each, no
\* identifier or date missing, one display name per country
RowsOfIso(t, iso) == {i \in 1..Len(t) : t[i].iso_code = iso}
Grid(t, D) ==
    /\ \A i \in 1..Len(t) : t[i].iso_code # NULL /\ t[i].date \in DOMAIN DayOf
    /\ \A iso \in IsoSet(t) :
          /\ Cardinality(RowsOfIso(t, iso)) = D
          /\ Cardinality({t[i].date : i \in RowsOfIso(t, iso)}) = D
    /\ \A i, j \in 1..Len(t) :
          (t[i].iso_code = t[j].iso_code) <=> (t[i].location = t[j].location)

\* C6: after schema reset, transform and load of a C-country, D-date
\* artifact the Location table has C rows, the Observation table C*D, and the
\* join filtered to France returns France's D rows, latest date first.
C6_EndToEndCounts ==
    \A D \in 1..4 :
        (/\ Did("Checked")
         /\ Grid(df, D)
         /\ \E i \in 1..Len(df) : df[i].location = "France")
        => /\ Len(locations) = Cardinality(IsoSet(df))
           /\ Len(covid_stats) = Cardinality(IsoSet(df)) * D
           /\ Len(sample) = D
           /\ \A i \in 1..Len(sample) : sample[i].location = "France"
           /\ \A i, j \in 1..Len(sample) :
                 i < j => DateKey(sample[j].date) < DateKey(sample[i].date)

UniqueIds(tbl) ==
    \A i, j \in 1..Len(tbl) : tbl[i].iso_code = tbl[j].iso_code => i = j

LocPart(r) == [c \in loc_cols |-> r[c]]

\* the Location table holds, for each identifier of `rows`, the static
\* columns of the first row of `rows` that has it, and nothing else
OneRowPerId(tbl, rows) ==
    /\ \A j \in 1..Len(tbl) : tbl[j].iso_code \in IsoSet(rows)
    /\ \A iso \in IsoSet(rows) :
          LET first == CHOOSE i \in RowsOfIso(rows, iso) :
                          \A k \in RowsOfIso(rows, iso) : i <= k
          IN  \E j \in 1..Len(tbl) : tbl[j] = LocPart(rows[first])

\* C7, as stated: the Location table never repeats an identifier, and after a
\* successful run it holds one row per distinct identifier of the artifact
\* (its first occurrence) and nothing of an earlier run.
C7_OneRowPerArtifactId ==
    /\ UniqueIds(locations)
    /\ Did("Loaded") => OneRowPerId(locations, df)

\* C7, amended: the same, the identifiers and first occurrences being taken
\* among the artifact's rows that have both an identifier and a date cell.
C7_OneRowPerKeyedId ==
    /\ UniqueIds(locations)
    /\ Did("Loaded") => OneRowPerId(locations, SelectSeq(df, HasKeys))

\* C7 witness: a successful run over a store that held another country's
\* row from an earlier load; only the new artifact's country is left.
C7_Witness ==
    /\ Did("Loaded")
    /\ storeAtStart[1] = PriorLocations
    /\ Len(df) >= 2
    /\ IsoSet(df) = {"FRA"}
    /\ Len(locations) = 1

IndexOf(step) == CHOOSE i \in 1..Len(Order) : Order[i] = step

PcAfter == <<"located", "schema_reset", "transformed", "loc_loaded",
             "loaded", "checked">>

\* C9: the steps of a run are a prefix of Located, SchemaReset, Transformed,
\* (Locations loaded,) Loaded, Checked; a step that fails ends the run there,
\* so nothing after it is executed: no Observation load after a failed
\* Location load, no self-check after a failed load.
C9_SequentialAbortOnFailure ==
    /\ Len(steps) <= Len(Order)
    /\ steps = SubSeq(Order, 1, Len(steps))
    /\ (failedAt = "none" /\ steps # <<>>) => lpc = PcAfter[Len(steps)]
    /\ failedAt # "none" =>
          /\ lpc = "failed"
          /\ Len(steps) = IndexOf(failedAt) - 1
          /\ sample = <<>>
          /\ IndexOf(failedAt) \in 3..4 => covid_stats = <<>>

\* C9 witness: the Location load failed after a transform that produced
\* Observation rows, and the Observation table is still empty.
C9_Witness ==
    /\ failedAt = "LocationsLoaded"
    /\ df_stats # <<>>
    /\ covid_stats = <<>>
    /\ steps = <<"Located", "SchemaReset", "Transformed">>

====
